---- MODULE Spec2Model ----
(***************************************************************************)
(* The packet decoder of libipt (src/libipt/src/pt_packet_decoder.c): the  *)
(* session {config, pos, sync}, its construction, the three                *)
(* synchronization operations, the two offset queries and the decode step  *)
(* with its per-kind decode routines.                                      *)
(*                                                                         *)
(* Pointers are addresses: naturals below 2^ptrBits, NULL is 0.  The trace *)
(* buffer is a sequence of byte classes placed at address Base.            *)
(*                                                                         *)
(* The collaborators the file calls but does not define (pt_sync_forward,  *)
(* pt_sync_backward, pt_df_fetch, the pt_pkt_read_* readers, the ptps_*    *)
(* sizes and the pte_* codes) are modelled from the specification's        *)
(* description of them.                                                    *)
(***************************************************************************)
EXTENDS Integers, Sequences, FiniteSets, TLC

(***************************************************************************)
(* Bounds of the model.                                                    *)
(***************************************************************************)
\* Width of a pointer on the narrow build; the offset type (uint64_t in the
\* code) is one bit wider, and the wide build's pointers are as wide as it.
AddrBits == 6
OffBits == AddrBits + 1
\* Address of the first byte of the trace memory.
Base == 3
\* A view may start up to MaxBeginShift bytes into the memory and end up to
\* MaxEndCut bytes before its end.
MaxBeginShift == 1
MaxEndCut == 1
\* Largest of the short spans the unrecognized-opcode reader reports.
MaxSpan == 2
\* Width of the packet record's size field (uint8_t in the code).
SizeFieldBits == 5

(***************************************************************************)
(* Status codes (enum pt_error_code) and packet sizes (enum pt_packet_size)*)
(* Only their being distinct and positive matters for the codes.           *)
(***************************************************************************)
pte_internal == 1
pte_invalid == 2
pte_nosync == 3
pte_bad_opc == 4
pte_bad_packet == 5
pte_eos == 7
pte_bad_config == 10

ptps_pad == 1
ptps_psb == 16
ptps_ovf == 2
ptps_psbend == 2
ptps_tnt_8 == 1
ptps_tnt_64 == 8
ptps_pip == 8
ptps_mode == 2
ptps_tsc == 8
ptps_cbr == 4
\* An IP packet with a 16 bit update: header and two payload bytes.
ptps_ip == 3

NULL == 0

\* sizeof(struct pt_config) of this build, the expected config->size; any
\* other value is a foreign build's.
SizeofConfig == 1
BadSizeofConfig == SizeofConfig + 1

(***************************************************************************)
(* Trace memory.                                                           *)
(***************************************************************************)
\* The 16 byte PSB pattern: (0x02 0x82) eight times.
PsbBytes == [i \in 1..ptps_psb |-> IF i % 2 = 1 THEN "ext" ELSE "psb"]

\* Two back-to-back markers followed by one pad byte.
MemTwoPsb == PsbBytes \o PsbBytes \o <<"pad">>

\* A broken marker (ext psb, then no pattern), packets of several kinds, a
\* marker, fixed-size packets, an unrecognized opcode and a marker cut off
\* by the end of the memory.
MemMixed ==
    <<"ext", "psb", "pad", "tip", "raw", "raw", "tnt_8">> \o PsbBytes
        \o <<"ext", "psbend", "ext", "ovf", "raw", "ext", "psb", "ext">>

\* No marker at all: only the first two bytes of one.
MemNoPsb == <<"pad", "ext", "psb", "tnt_8", "raw", "pad">>

\* An unrecognized opcode with more bytes behind it than the packet
\* record's size field can count.
MemLongSpan == <<"raw">> \o PsbBytes \o PsbBytes

\* The memory images the model runs on; the variable mem names one.
Memories == <<MemTwoPsb, MemMixed, MemNoPsb, MemLongSpan>>

VARIABLES
    mem,        \* which of Memories the caller's trace memory holds; the
                \* decoder never writes it
    ptrBits,    \* the build's pointer width
    decoder,    \* struct pt_packet_decoder: [config, pos, sync]
    op,         \* the operation called last
    ret,        \* its return value
    packet,     \* struct pt_packet as the last decode step left it
    dfun,       \* the decode routine the last decode step invoked
    out,        \* *offset as the last offset query left it
    total,      \* sum of the sizes returned since the last successful sync
    phase,      \* "fresh": constructed, never synchronized; "synced": a
                \* synchronization has succeeded since the construction;
                \* "reinit": constructed again after that, not synchronized
    fwdRun,     \* successful sync_forward calls in a row, counted up to 2
    resync      \* how far the last calls have got through the run
                \* sync_forward, decode a marker, sync_forward, decode a
                \* marker, decode a pad byte (each successful): 0..5

vars == <<mem, ptrBits, decoder, op, ret, packet, dfun, out, total, phase,
          fwdRun, resync>>

\* The byte at address a, read as its class.
ByteAt(a) == Memories[mem][a - Base + 1]

\* begin + offset: pointer arithmetic wraps at the pointer's width.
PtrAdd(p, n) == (p + n) % (2 ^ ptrBits)

\* pos - begin as uint64_t.
PtrDiff(p, q) == (p - q) % (2 ^ OffBits)

Offsets == 0 .. (2 ^ OffBits - 1)

MemEnd == Base + Len(Memories[mem])

\* The offsets the caller seeks to: every offset up to one past the
\* memory's length, the first offsets that wrap a narrow pointer, and the
\* largest offset there is.
SeekOffsets ==
    (0 .. (Len(Memories[mem]) + 1))
        \cup ((2 ^ AddrBits) .. (2 ^ AddrBits + 1))
        \cup { 2 ^ OffBits - 1 }

\* The views a caller may pass to construction: windows over the memory,
\* and the malformed ones (no begin, end < begin, a foreign size tag).
GoodConfigs ==
    { [size |-> SizeofConfig, begin |-> Base + b, end |-> MemEnd - e] :
        b \in 0..MaxBeginShift, e \in 0..MaxEndCut }

BadConfigs ==
    { [size |-> BadSizeofConfig, begin |-> Base, end |-> MemEnd],
      [size |-> SizeofConfig, begin |-> NULL, end |-> MemEnd],
      [size |-> SizeofConfig, begin |-> MemEnd, end |-> Base],
      [size |-> BadSizeofConfig, begin |-> NULL, end |-> Base] }

Configs == GoodConfigs \cup BadConfigs

NoPacket == [type |-> "none", size |-> 0]

(***************************************************************************)
(* Collaborators: marker scan, dispatch table and field readers.           *)
(***************************************************************************)
\* For each memory image, the offsets at which the 16 byte pattern occurs.
PsbStarts ==
    [ i \in DOMAIN Memories |->
        { k \in 0..(Len(Memories[i]) - ptps_psb) :
            \A j \in 1..ptps_psb : Memories[i][k + j] = PsbBytes[j] } ]

\* A full marker pattern starts at address m and lies within the view.
IsPsbAt(m, config) ==
    /\ config.begin <= m
    /\ m + ptps_psb <= config.end
    /\ (m - Base) \in PsbStarts[mem]

Min(S) == CHOOSE x \in S : \A y \in S : x <= y
Max(S) == CHOOSE x \in S : \A y \in S : x >= y

\* pt_sync_forward: the first marker at or after pos, or NoSync when there
\* is none before end.  [err, sync].
pt_sync_forward(pos, config) ==
    LET found == { m \in config.begin..config.end :
                        m >= pos /\ IsPsbAt(m, config) }
    IN  IF found = {}
        THEN [err |-> -pte_nosync, sync |-> NULL]
        ELSE [err |-> 0, sync |-> Min(found)]

\* pt_sync_backward: the nearest marker that starts before pos.
pt_sync_backward(pos, config) ==
    LET found == { m \in config.begin..config.end :
                        m < pos /\ IsPsbAt(m, config) }
    IN  IF found = {}
        THEN [err |-> -pte_nosync, sync |-> NULL]
        ELSE [err |-> 0, sync |-> Max(found)]

\* The kinds the dispatch table knows; each entry's packet function is the
\* pt_pkt_decode_<kind> routine below.
Kinds ==
    { "pad", "psb", "tip", "tnt_8", "tnt_64", "tip_pge", "tip_pgd", "fup",
      "pip", "ovf", "mode", "psbend", "tsc", "cbr", "unknown" }

\* The opcode classes that are a kind's own one-byte header.
HeaderKinds ==
    { "pad", "tip", "tnt_8", "tnt_64", "tip_pge", "tip_pgd", "fup", "mode",
      "tsc" }

\* The second byte of an extended opcode.
ExtKinds == { "psb", "psbend", "ovf", "pip", "cbr" }

\* pt_df_fetch: the decode function for the opcode at pos.  NoSync without
\* a position inside the view, end-of-stream at end or inside an extended
\* opcode.  [err, dfun].
pt_df_fetch(pos, config) ==
    IF pos = NULL \/ pos < config.begin \/ config.end < pos
    THEN [err |-> -pte_nosync, dfun |-> "none"]
    ELSE IF pos = config.end
    THEN [err |-> -pte_eos, dfun |-> "none"]
    ELSE IF ByteAt(pos) = "ext"
    THEN IF pos + 1 = config.end
         THEN [err |-> -pte_eos, dfun |-> "none"]
         ELSE IF ByteAt(pos + 1) \in ExtKinds
         THEN [err |-> 0, dfun |-> ByteAt(pos + 1)]
         ELSE [err |-> 0, dfun |-> "unknown"]
    ELSE IF ByteAt(pos) \in HeaderKinds
    THEN [err |-> 0, dfun |-> ByteAt(pos)]
    \* 0x82 on its own is a short TNT.
    ELSE IF ByteAt(pos) = "psb"
    THEN [err |-> 0, dfun |-> "tnt_8"]
    ELSE [err |-> 0, dfun |-> "unknown"]

\* pt_pkt_read_psb: the marker's size when the whole pattern is there.
pt_pkt_read_psb(pos, config) ==
    IF config.end < pos + ptps_psb THEN -pte_eos
    ELSE IF ~IsPsbAt(pos, config) THEN -pte_bad_packet
    ELSE ptps_psb

\* The size of a kind that has a payload.
PayloadSize(kind) ==
    CASE kind \in {"tip", "tip_pge", "tip_pgd", "fup"} -> ptps_ip
      [] kind = "tnt_8" -> ptps_tnt_8
      [] kind = "tnt_64" -> ptps_tnt_64
      [] kind = "pip" -> ptps_pip
      [] kind = "mode" -> ptps_mode
      [] kind = "tsc" -> ptps_tsc
      [] kind = "cbr" -> ptps_cbr

\* pt_pkt_read_ip, _tnt_8, _tnt_64, _pip, _mode, _tsc, _cbr: the consumed
\* size, or end-of-stream when the payload does not fit before end.
pt_pkt_read(kind, pos, config) ==
    IF config.end < pos + PayloadSize(kind) THEN -pte_eos
    ELSE PayloadSize(kind)

\* The value stored in the packet record's size field for a size.
SizeField(size) == size % (2 ^ SizeFieldBits)

\* The smallest span the size field cannot hold.
WideSpan == 2 ^ SizeFieldBits

\* What the unrecognized-opcode reader may come up with: no decoder for the
\* opcode, or a non-negative span to skip, short or wide.
UnknownResults == { -pte_bad_opc } \cup 0..MaxSpan \cup { WideSpan }

\* pt_pkt_read_unknown: span is the reader's finding; it fills in the
\* packet.  [size, packet].
pt_pkt_read_unknown(pkt, pos, config, span) ==
    IF span < 0 THEN [size |-> span, packet |-> pkt]
    ELSE IF config.end < pos + span THEN [size |-> -pte_eos, packet |-> pkt]
    ELSE [size |-> span, packet |-> [type |-> "unknown", size |-> SizeField(span)]]

(***************************************************************************)
(* The operations of pt_packet_decoder.c.  Each takes the session d and    *)
(* its arguments (haveDecoder, havePacket, ...: whether the pointer passed *)
(* is non-null) and yields the return value and the session afterwards.    *)
(***************************************************************************)
\* pt_pkt_decoder_init without the memset: the cursors survive.
pt_pkt_decoder_init_NoReset(d, haveDecoder, haveConfig, config) ==
    IF ~haveDecoder \/ ~haveConfig
    THEN [ret |-> -pte_invalid, decoder |-> d]
    ELSE IF config.size # SizeofConfig
    THEN [ret |-> -pte_bad_config, decoder |-> d]
    ELSE IF config.begin = NULL \/ config.end < config.begin
    THEN [ret |-> -pte_bad_config, decoder |-> d]
    ELSE [ret |-> 0, decoder |-> [d EXCEPT !.config = config]]

\* pt_pkt_decoder_init with the memset done before the view is validated.
pt_pkt_decoder_init_ClearFirst(d, haveDecoder, haveConfig, config) ==
    IF ~haveDecoder \/ ~haveConfig
    THEN [ret |-> -pte_invalid, decoder |-> d]
    ELSE IF config.size # SizeofConfig
    THEN [ret |-> -pte_bad_config,
          decoder |-> [d EXCEPT !.pos = NULL, !.sync = NULL]]
    ELSE IF config.begin = NULL \/ config.end < config.begin
    THEN [ret |-> -pte_bad_config,
          decoder |-> [d EXCEPT !.pos = NULL, !.sync = NULL]]
    ELSE [ret |-> 0,
          decoder |-> [config |-> config, pos |-> NULL, sync |-> NULL]]

pt_pkt_decoder_init(d, haveDecoder, haveConfig, config) ==
    IF ~haveDecoder \/ ~haveConfig
    THEN [ret |-> -pte_invalid, decoder |-> d]
    ELSE IF config.size # SizeofConfig
    THEN [ret |-> -pte_bad_config, decoder |-> d]
    ELSE IF config.begin = NULL \/ config.end < config.begin
    THEN [ret |-> -pte_bad_config, decoder |-> d]
    ELSE [ret |-> 0,
          decoder |-> [config |-> config, pos |-> NULL, sync |-> NULL]]

\* SyncForwardStart with the scan always started at begin.
SyncForwardStart_FromBegin(d) == d.config.begin

\* SyncForwardStart without the skip of the marker the cursor sits on.
SyncForwardStart_NoSkip(d) ==
    IF d.pos = NULL THEN d.config.begin ELSE d.pos

\* SyncForwardStart with the marker size skipped whenever pos is set.
SyncForwardStart_SkipWhenSet(d) ==
    IF d.pos = NULL THEN d.config.begin ELSE PtrAdd(d.pos, ptps_psb)

\* Where pt_pkt_sync_forward starts its scan.
SyncForwardStart(d) ==
    LET pos == IF d.pos = NULL THEN d.config.begin ELSE d.pos
    IN  IF pos = d.sync THEN PtrAdd(pos, ptps_psb) ELSE pos

\* pt_pkt_sync_forward with the scan's start stored in pos before the scan.
pt_pkt_sync_forward_StoresStart(d, haveDecoder) ==
    IF ~haveDecoder
    THEN [ret |-> -pte_invalid, decoder |-> d]
    ELSE LET r == pt_sync_forward(SyncForwardStart(d), d.config)
         IN  IF r.err < 0
             THEN [ret |-> r.err,
                   decoder |-> [d EXCEPT !.pos = SyncForwardStart(d)]]
             ELSE [ret |-> 0,
                   decoder |-> [d EXCEPT !.sync = r.sync, !.pos = r.sync]]

\* pt_pkt_sync_forward with only sync set to the marker found.
pt_pkt_sync_forward_KeepsPos(d, haveDecoder) ==
    IF ~haveDecoder
    THEN [ret |-> -pte_invalid, decoder |-> d]
    ELSE LET r == pt_sync_forward(SyncForwardStart(d), d.config)
         IN  IF r.err < 0
             THEN [ret |-> r.err, decoder |-> d]
             ELSE [ret |-> 0, decoder |-> [d EXCEPT !.sync = r.sync]]

pt_pkt_sync_forward(d, haveDecoder) ==
    IF ~haveDecoder
    THEN [ret |-> -pte_invalid, decoder |-> d]
    ELSE LET r == pt_sync_forward(SyncForwardStart(d), d.config)
         IN  IF r.err < 0
             THEN [ret |-> r.err, decoder |-> d]
             ELSE [ret |-> 0,
                   decoder |-> [d EXCEPT !.sync = r.sync, !.pos = r.sync]]

\* SyncBackwardStart with the scan started at the cursor.
SyncBackwardStart_FromPos(d) ==
    IF d.pos = NULL THEN d.config.end ELSE d.pos

\* Where pt_pkt_sync_backward starts its scan.
SyncBackwardStart(d) ==
    IF d.sync = NULL THEN d.config.end ELSE d.sync

\* pt_pkt_sync_backward with only sync set to the marker found.
pt_pkt_sync_backward_SyncOnly(d, haveDecoder) ==
    IF ~haveDecoder
    THEN [ret |-> -pte_invalid, decoder |-> d]
    ELSE LET r == pt_sync_backward(SyncBackwardStart(d), d.config)
         IN  IF r.err < 0
             THEN [ret |-> r.err, decoder |-> d]
             ELSE [ret |-> 0, decoder |-> [d EXCEPT !.sync = r.sync]]

pt_pkt_sync_backward(d, haveDecoder) ==
    IF ~haveDecoder
    THEN [ret |-> -pte_invalid, decoder |-> d]
    ELSE LET r == pt_sync_backward(SyncBackwardStart(d), d.config)
         IN  IF r.err < 0
             THEN [ret |-> r.err, decoder |-> d]
             ELSE [ret |-> 0,
                   decoder |-> [d EXCEPT !.sync = r.sync, !.pos = r.sync]]

\* pt_pkt_sync_set with end itself refused.
pt_pkt_sync_set_EndExclusive(d, haveDecoder, offset) ==
    IF ~haveDecoder
    THEN [ret |-> -pte_invalid, decoder |-> d]
    ELSE LET pos == PtrAdd(d.config.begin, offset)
         IN  IF d.config.end <= pos \/ pos < d.config.begin
             THEN [ret |-> -pte_invalid, decoder |-> d]
             ELSE [ret |-> 0, decoder |-> [d EXCEPT !.sync = pos, !.pos = pos]]

\* pt_pkt_sync_set with only the lower bound checked.
pt_pkt_sync_set_NoUpperCheck(d, haveDecoder, offset) ==
    IF ~haveDecoder
    THEN [ret |-> -pte_invalid, decoder |-> d]
    ELSE LET pos == PtrAdd(d.config.begin, offset)
         IN  IF pos < d.config.begin
             THEN [ret |-> -pte_invalid, decoder |-> d]
             ELSE [ret |-> 0, decoder |-> [d EXCEPT !.sync = pos, !.pos = pos]]

\* pt_pkt_sync_set with only sync set to the position.
pt_pkt_sync_set_SyncOnly(d, haveDecoder, offset) ==
    IF ~haveDecoder
    THEN [ret |-> -pte_invalid, decoder |-> d]
    ELSE LET pos == PtrAdd(d.config.begin, offset)
         IN  IF d.config.end < pos \/ pos < d.config.begin
             THEN [ret |-> -pte_invalid, decoder |-> d]
             ELSE [ret |-> 0, decoder |-> [d EXCEPT !.sync = pos]]

pt_pkt_sync_set(d, haveDecoder, offset) ==
    IF ~haveDecoder
    THEN [ret |-> -pte_invalid, decoder |-> d]
    ELSE LET pos == PtrAdd(d.config.begin, offset)
         IN  IF d.config.end < pos \/ pos < d.config.begin
             THEN [ret |-> -pte_invalid, decoder |-> d]
             ELSE [ret |-> 0, decoder |-> [d EXCEPT !.sync = pos, !.pos = pos]]

\* [ret, offset]: offset is *offset afterwards, o being what it held.
pt_pkt_get_offset(d, haveDecoder, haveOffset, o) ==
    IF ~haveDecoder \/ ~haveOffset
    THEN [ret |-> -pte_invalid, offset |-> o]
    ELSE IF d.pos = NULL
    THEN [ret |-> -pte_nosync, offset |-> o]
    ELSE [ret |-> 0, offset |-> PtrDiff(d.pos, d.config.begin)]

pt_pkt_get_sync_offset(d, haveDecoder, haveOffset, o) ==
    IF ~haveDecoder \/ ~haveOffset
    THEN [ret |-> -pte_invalid, offset |-> o]
    ELSE IF d.sync = NULL
    THEN [ret |-> -pte_nosync, offset |-> o]
    ELSE [ret |-> 0, offset |-> PtrDiff(d.sync, d.config.begin)]

(***************************************************************************)
(* The decode routines: [size, packet], packet being the caller's record   *)
(* afterwards.                                                             *)
(***************************************************************************)
pt_pkt_decode_unknown(d, haveDecoder, pkt, span) ==
    IF ~haveDecoder
    THEN [size |-> -pte_internal, packet |-> pkt]
    ELSE pt_pkt_read_unknown(pkt, d.pos, d.config, span)

pt_pkt_decode_pad(d, havePacket, pkt) ==
    IF ~havePacket
    THEN [size |-> -pte_internal, packet |-> pkt]
    ELSE [size |-> ptps_pad, packet |-> [type |-> "pad", size |-> ptps_pad]]

pt_pkt_decode_psb(d, haveDecoder, pkt) ==
    IF ~haveDecoder
    THEN [size |-> -pte_internal, packet |-> pkt]
    ELSE LET size == pt_pkt_read_psb(d.pos, d.config)
         IN  IF size < 0
             THEN [size |-> size, packet |-> pkt]
             ELSE [size |-> size,
                   packet |-> [type |-> "psb", size |-> SizeField(size)]]

\* pt_pkt_decode_ovf returning the pad packet's size.
pt_pkt_decode_ovf_PadSize(d, havePacket, pkt) ==
    IF ~havePacket
    THEN [size |-> -pte_internal, packet |-> pkt]
    ELSE [size |-> ptps_pad, packet |-> [type |-> "ovf", size |-> ptps_ovf]]

pt_pkt_decode_ovf(d, havePacket, pkt) ==
    IF ~havePacket
    THEN [size |-> -pte_internal, packet |-> pkt]
    ELSE [size |-> ptps_ovf, packet |-> [type |-> "ovf", size |-> ptps_ovf]]

pt_pkt_decode_psbend(d, havePacket, pkt) ==
    IF ~havePacket
    THEN [size |-> -pte_internal, packet |-> pkt]
    ELSE [size |-> ptps_psbend,
          packet |-> [type |-> "psbend", size |-> ptps_psbend]]

\* pt_pkt_decode_tip, _tnt_8, _tnt_64, _tip_pge, _tip_pgd, _fup, _pip,
\* _mode, _tsc and _cbr are the same code around their reader.
pt_pkt_decode_payload(kind, d, haveDecoder, havePacket, pkt) ==
    IF ~haveDecoder \/ ~havePacket
    THEN [size |-> -pte_internal, packet |-> pkt]
    ELSE LET size == pt_pkt_read(kind, d.pos, d.config)
         IN  IF size < 0
             THEN [size |-> size, packet |-> pkt]
             ELSE [size |-> size,
                   packet |-> [type |-> kind, size |-> SizeField(size)]]

\* dfun->packet(decoder, packet) for the table's entry of a kind.
DfunPacket(kind, d, haveDecoder, havePacket, pkt, span) ==
    CASE kind = "unknown" -> pt_pkt_decode_unknown(d, haveDecoder, pkt, span)
      [] kind = "pad" -> pt_pkt_decode_pad(d, havePacket, pkt)
      [] kind = "psb" -> pt_pkt_decode_psb(d, haveDecoder, pkt)
      [] kind = "ovf" -> pt_pkt_decode_ovf(d, havePacket, pkt)
      [] kind = "psbend" -> pt_pkt_decode_psbend(d, havePacket, pkt)
      [] OTHER -> pt_pkt_decode_payload(kind, d, haveDecoder, havePacket, pkt)

\* AdvancePos with the cursor moved before the size is looked at.
AdvancePos_BeforeCheck(d, size) ==
    [d EXCEPT !.pos = PtrAdd(d.pos, IF size < 0 THEN 1 ELSE size)]

\* AdvancePos with the cursor moved one byte too far.
AdvancePos_OffByOne(d, size) ==
    IF size < 0 THEN d ELSE [d EXCEPT !.pos = PtrAdd(d.pos, size + 1)]

\* The session after a decode routine returned size: untouched when it
\* failed, pos advanced by size otherwise.
AdvancePos(d, size) ==
    IF size < 0 THEN d ELSE [d EXCEPT !.pos = PtrAdd(d.pos, size)]

\* What may be wrong with the dispatch table's entry: nothing, no entry, or
\* an entry without a packet function.
TableStates == { "ok", "no_dfun", "no_packet" }

\* pt_pkt_next without the check of pt_df_fetch's status: after a failed
\* fetch it goes on with the pad routine's entry.
pt_pkt_next_NoFetchCheck(d, haveDecoder, havePacket, pkt, table, span) ==
    IF ~havePacket \/ ~haveDecoder
    THEN [ret |-> -pte_invalid, decoder |-> d, packet |-> pkt,
          dfun |-> "none"]
    ELSE LET f == pt_df_fetch(d.pos, d.config)
             kind == IF f.err < 0 THEN "pad" ELSE f.dfun
         IN  IF table = "no_dfun" \/ table = "no_packet"
             THEN [ret |-> -pte_internal, decoder |-> d, packet |-> pkt,
                   dfun |-> "none"]
             ELSE LET r == DfunPacket(kind, d, haveDecoder, havePacket,
                                      pkt, span)
                  IN  [ret |-> r.size, decoder |-> AdvancePos(d, r.size),
                       packet |-> r.packet, dfun |-> kind]

\* [ret, decoder, packet, dfun]: dfun is the routine that was invoked, or
\* "none".
pt_pkt_next(d, haveDecoder, havePacket, pkt, table, span) ==
    IF ~havePacket \/ ~haveDecoder
    THEN [ret |-> -pte_invalid, decoder |-> d, packet |-> pkt,
          dfun |-> "none"]
    ELSE LET f == pt_df_fetch(d.pos, d.config)
         IN  IF f.err < 0
             THEN [ret |-> f.err, decoder |-> d, packet |-> pkt,
                   dfun |-> "none"]
             ELSE IF table = "no_dfun" \/ table = "no_packet"
             THEN [ret |-> -pte_internal, decoder |-> d, packet |-> pkt,
                   dfun |-> "none"]
             ELSE LET r == DfunPacket(f.dfun, d, haveDecoder, havePacket,
                                      pkt, span)
                  IN  [ret |-> r.size, decoder |-> AdvancePos(d, r.size),
                       packet |-> r.packet, dfun |-> f.dfun]

(***************************************************************************)
(* The state machine: a caller that calls the operations in any order with *)
(* any arguments.  Each call gets a fresh packet record and a fresh offset *)
(* cell.                                                                   *)
(***************************************************************************)
PtrWidths == { AddrBits, OffBits }

Init ==
    /\ mem \in DOMAIN Memories
    /\ ptrBits \in PtrWidths
    /\ \E config \in GoodConfigs :
         decoder = [config |-> config, pos |-> NULL, sync |-> NULL]
    /\ op = "init"
    /\ ret = 0
    /\ packet = NoPacket
    /\ dfun = "none"
    /\ out = 0
    /\ total = 0
    /\ phase = "fresh"
    /\ fwdRun = 0
    /\ resync = 0

DecoderInit(haveDecoder, haveConfig, config) ==
    LET r == pt_pkt_decoder_init(decoder, haveDecoder, haveConfig, config)
    IN  /\ decoder' = r.decoder
        /\ op' = "init"
        /\ ret' = r.ret
        /\ total' = IF r.ret = 0 THEN 0 ELSE total
        /\ phase' = IF r.ret # 0 THEN phase
                     ELSE IF phase = "fresh" THEN "fresh" ELSE "reinit"
        /\ fwdRun' = 0
        /\ resync' = 0
        /\ packet' = NoPacket
        /\ dfun' = "none"
        /\ out' = 0
        /\ UNCHANGED <<mem, ptrBits>>

SyncForward(haveDecoder) ==
    LET r == pt_pkt_sync_forward(decoder, haveDecoder)
    IN  /\ decoder' = r.decoder
        /\ op' = "sync_forward"
        /\ ret' = r.ret
        /\ total' = IF r.ret = 0 THEN 0 ELSE total
        /\ phase' = IF r.ret = 0 THEN "synced" ELSE phase
        /\ fwdRun' = IF r.ret # 0 THEN 0 ELSE IF fwdRun = 0 THEN 1 ELSE 2
        /\ resync' = IF r.ret # 0 THEN 0 ELSE IF resync = 2 THEN 3 ELSE 1
        /\ packet' = NoPacket
        /\ dfun' = "none"
        /\ out' = 0
        /\ UNCHANGED <<mem, ptrBits>>

SyncBackward(haveDecoder) ==
    LET r == pt_pkt_sync_backward(decoder, haveDecoder)
    IN  /\ decoder' = r.decoder
        /\ op' = "sync_backward"
        /\ ret' = r.ret
        /\ total' = IF r.ret = 0 THEN 0 ELSE total
        /\ phase' = IF r.ret = 0 THEN "synced" ELSE phase
        /\ fwdRun' = 0
        /\ resync' = 0
        /\ packet' = NoPacket
        /\ dfun' = "none"
        /\ out' = 0
        /\ UNCHANGED <<mem, ptrBits>>

SyncSet(haveDecoder, offset) ==
    LET r == pt_pkt_sync_set(decoder, haveDecoder, offset)
    IN  /\ decoder' = r.decoder
        /\ op' = "sync_set"
        /\ ret' = r.ret
        /\ total' = IF r.ret = 0 THEN 0 ELSE total
        /\ phase' = IF r.ret = 0 THEN "synced" ELSE phase
        /\ fwdRun' = 0
        /\ resync' = 0
        /\ packet' = NoPacket
        /\ dfun' = "none"
        /\ out' = 0
        /\ UNCHANGED <<mem, ptrBits>>

GetOffset(haveDecoder, haveOffset) ==
    LET r == pt_pkt_get_offset(decoder, haveDecoder, haveOffset, 0)
    IN  /\ op' = "get_offset"
        /\ ret' = r.ret
        /\ out' = r.offset
        /\ packet' = NoPacket
        /\ dfun' = "none"
        /\ fwdRun' = 0
        /\ resync' = 0
        /\ UNCHANGED <<mem, ptrBits, decoder, total, phase>>

GetSyncOffset(haveDecoder, haveOffset) ==
    LET r == pt_pkt_get_sync_offset(decoder, haveDecoder, haveOffset, 0)
    IN  /\ op' = "get_sync_offset"
        /\ ret' = r.ret
        /\ out' = r.offset
        /\ packet' = NoPacket
        /\ dfun' = "none"
        /\ fwdRun' = 0
        /\ resync' = 0
        /\ UNCHANGED <<mem, ptrBits, decoder, total, phase>>

PktNext(haveDecoder, havePacket, table, span) ==
    LET r == pt_pkt_next(decoder, haveDecoder, havePacket, NoPacket, table,
                         span)
    IN  /\ decoder' = r.decoder
        /\ op' = "next"
        /\ ret' = r.ret
        /\ packet' = r.packet
        /\ dfun' = r.dfun
        /\ total' = IF r.ret >= 0 THEN total + r.ret ELSE total
        /\ out' = 0
        /\ fwdRun' = 0
        /\ resync' = IF r.dfun = "psb" /\ r.ret = ptps_psb /\ resync = 1 THEN 2
                      ELSE IF r.dfun = "psb" /\ r.ret = ptps_psb /\ resync = 3
                      THEN 4
                      ELSE IF r.dfun = "pad" /\ r.ret = ptps_pad /\ resync = 4
                      THEN 5
                      ELSE 0
        /\ UNCHANGED <<mem, ptrBits, phase>>

\* The argument lists of the calls: every list with all pointers passed, and
\* each way of passing a null pointer once.
Flags2 == { <<TRUE, TRUE>>, <<TRUE, FALSE>>, <<FALSE, TRUE>>, <<FALSE, FALSE>> }

InitArgs ==
    { <<TRUE, TRUE, config>> : config \in Configs }
        \cup { <<f[1], f[2], config>> :
                 f \in Flags2 \ { <<TRUE, TRUE>> }, config \in GoodConfigs }

NextArgs ==
    { <<TRUE, TRUE, table, span>> :
        table \in TableStates, span \in UnknownResults }
        \cup { <<f[1], f[2], "ok", 1>> : f \in Flags2 \ { <<TRUE, TRUE>> } }

Next ==
    \/ \E a \in InitArgs : DecoderInit(a[1], a[2], a[3])
    \/ \E hd \in BOOLEAN : SyncForward(hd)
    \/ \E hd \in BOOLEAN : SyncBackward(hd)
    \/ \E offset \in SeekOffsets : SyncSet(TRUE, offset)
    \/ SyncSet(FALSE, 0)
    \/ \E f \in Flags2 : GetOffset(f[1], f[2])
    \/ \E f \in Flags2 : GetSyncOffset(f[1], f[2])
    \/ \E a \in NextArgs : PktNext(a[1], a[2], a[3], a[4])

Spec == Init /\ [][Next]_vars

(***************************************************************************)
(* The offsets the queries report.                                         *)
(***************************************************************************)
PosOffset(d) == PtrDiff(d.pos, d.config.begin)
SyncOffset(d) == PtrDiff(d.sync, d.config.begin)

(***************************************************************************)
(* C1: whenever the decode step returns a negative status (a missing       *)
(* argument, a fetch failure, a defective dispatch entry or a failing      *)
(* reader), pos and sync are what they were before the call.               *)
(***************************************************************************)
C1_FailedNextKeepsCursors ==
    [][ (op' = "next" /\ ret' < 0)
            => (decoder'.pos = decoder.pos /\ decoder'.sync = decoder.sync)
      ]_vars

\* A decode step at a synchronized position whose reader failed: the psb
\* routine was invoked and found the pattern cut off by end.
C1_Witness ==
    /\ op = "next"
    /\ ret = -pte_eos
    /\ dfun = "psb"
    /\ decoder.pos # NULL
    /\ decoder.pos > decoder.sync

(***************************************************************************)
(* C2: decoding on from a successful synchronization, after every decode   *)
(* step the sum of the sizes returned so far equals the pos offset minus   *)
(* the sync offset, up to and including the step that fails.               *)
(***************************************************************************)
C2_SizesSumToDistance ==
    decoder.pos # NULL => total = PosOffset(decoder) - SyncOffset(decoder)

\* The run over two markers and a pad byte, ended by the failing step at
\* end.
C2_Witness ==
    /\ op = "next"
    /\ ret = -pte_eos
    /\ decoder.pos = decoder.config.end
    /\ total = 2 * ptps_psb + ptps_pad

(***************************************************************************)
(* C3: a successful sync_forward from a synchronized session never yields  *)
(* a sync offset below the one before the call.                            *)
(***************************************************************************)
C3_SyncForwardNeverBack ==
    [][ (op' = "sync_forward" /\ ret' = 0 /\ decoder.sync # NULL)
            => SyncOffset(decoder') >= SyncOffset(decoder)
      ]_vars

\* A sync_forward that succeeded on a session some other call had left
\* synchronized: in the two-marker memory offset 6 is found only by a scan
\* that starts after offset 4, which takes a seek and a decode step.
C3_Witness ==
    /\ op = "sync_forward"
    /\ ret = 0
    /\ fwdRun = 1
    /\ mem = 1
    /\ decoder.config.begin = Base
    /\ SyncOffset(decoder) = 6

(***************************************************************************)
(* C4: when sync_forward succeeds and is called again at once, a second    *)
(* success lands at least the marker's size beyond the first.              *)
(***************************************************************************)
C4_SecondSyncForwardSkipsMarker ==
    [][ (op = "sync_forward" /\ ret = 0 /\ op' = "sync_forward" /\ ret' = 0)
            => SyncOffset(decoder') >= SyncOffset(decoder) + ptps_psb
      ]_vars

\* Two successful sync_forward calls in a row.
C4_Witness ==
    /\ fwdRun = 2
    /\ op = "sync_forward"
    /\ ret = 0
    /\ decoder.pos = decoder.sync

(***************************************************************************)
(* C5: in every session state, for every N from 0 to end - begin (end -    *)
(* begin included), sync_set(N) succeeds and get_offset and                *)
(* get_sync_offset called right after it both succeed and report N.        *)
(***************************************************************************)
C5_SeekInRange ==
    \A N \in 0..(decoder.config.end - decoder.config.begin) :
        LET r == pt_pkt_sync_set(decoder, TRUE, N)
        IN  /\ r.ret = 0
            /\ pt_pkt_get_offset(r.decoder, TRUE, TRUE, 0)
                 = [ret |-> 0, offset |-> N]
            /\ pt_pkt_get_sync_offset(r.decoder, TRUE, TRUE, 0)
                 = [ret |-> 0, offset |-> N]

\* get_offset right after the seek to end - begin, on a view that is not
\* empty.
C5_Witness ==
    /\ op = "get_offset"
    /\ ret = 0
    /\ out = decoder.config.end - decoder.config.begin
    /\ out > 0
    /\ decoder.pos = decoder.config.end
    /\ decoder.sync = decoder.config.end

(***************************************************************************)
(* C6: in every session state, for every offset N of the offset type with  *)
(* N > end - begin, sync_set(N) fails with InvalidArgument, also when      *)
(* begin + N wraps around the address width.                               *)
(***************************************************************************)
C6_SeekOutOfRangeRefused ==
    \A N \in Offsets :
        N > decoder.config.end - decoder.config.begin
            => pt_pkt_sync_set(decoder, TRUE, N).ret = -pte_invalid

(***************************************************************************)
(* C7: from a successful construction until the first synchronization      *)
(* that succeeds, get_offset and get_sync_offset fail with NoSync,         *)
(* whatever synchronization calls and decode steps have failed in          *)
(* between, and also when the construction was of a session that had been  *)
(* synchronized.                                                           *)
(***************************************************************************)
C7_NoSyncUntilSynchronized ==
    phase # "synced"
        => /\ pt_pkt_get_offset(decoder, TRUE, TRUE, 0).ret = -pte_nosync
           /\ pt_pkt_get_sync_offset(decoder, TRUE, TRUE, 0).ret = -pte_nosync

\* get_offset failing after a synchronized session was constructed again.
C7_Witness ==
    /\ phase = "reinit"
    /\ op = "get_offset"
    /\ ret = -pte_nosync

(***************************************************************************)
(* C8 as stated: a decode step that dispatches to pad, overflow, psbend or *)
(* psb succeeds and reports the kind's constant size, whatever the bytes   *)
(* at pos.                                                                 *)
(***************************************************************************)
FixedKinds == { "pad", "ovf", "psbend", "psb" }

FixedSize(kind) ==
    CASE kind = "pad" -> ptps_pad
      [] kind = "ovf" -> ptps_ovf
      [] kind = "psbend" -> ptps_psbend
      [] kind = "psb" -> ptps_psb

C8_FixedKindsAlwaysSucceed ==
    [][ (op' = "next" /\ dfun' \in FixedKinds)
            => /\ ret' = FixedSize(dfun')
               /\ packet' = [type |-> dfun', size |-> FixedSize(dfun')]
      ]_vars

(***************************************************************************)
(* C8 amended: a decode step that dispatches to pad, overflow or psbend    *)
(* succeeds and reports the kind's constant size whatever the bytes at     *)
(* pos; one that dispatches to psb reads the buffer: it reports the        *)
(* marker's constant size when the whole pattern lies at pos within the    *)
(* view, and otherwise fails and leaves the session as it was.             *)
(***************************************************************************)
C8_FixedKindsAmended ==
    [][ (op' = "next" /\ dfun' \in FixedKinds)
            => IF dfun' # "psb" \/ IsPsbAt(decoder.pos, decoder.config)
               THEN /\ ret' = FixedSize(dfun')
                    /\ packet' = [type |-> dfun', size |-> FixedSize(dfun')]
                    /\ decoder'.pos = decoder.pos + FixedSize(dfun')
               ELSE /\ ret' < 0
                    /\ decoder' = decoder
      ]_vars

\* The psb routine invoked on the first two bytes of a marker that the
\* bytes after them do not continue.
C8_Witness ==
    /\ op = "next"
    /\ dfun = "psb"
    /\ ret = -pte_bad_packet

(***************************************************************************)
(* C9: construction returns InvalidArgument when the session or the view   *)
(* is missing, else BadConfig when the view's size tag is not the compiled *)
(* one, else BadConfig when begin is absent or end < begin, else           *)
(* succeeds; when it fails the session is left exactly as it was.          *)
(***************************************************************************)
C9_InitValidation ==
    \A hd \in BOOLEAN, hc \in BOOLEAN, config \in Configs :
        LET r == pt_pkt_decoder_init(decoder, hd, hc, config)
        IN  /\ r.ret =
                 IF ~hd \/ ~hc THEN -pte_invalid
                 ELSE IF config.size # SizeofConfig THEN -pte_bad_config
                 ELSE IF config.begin = NULL \/ config.end < config.begin
                 THEN -pte_bad_config
                 ELSE 0
            /\ r.ret < 0 => r.decoder = decoder

\* A construction refused with BadConfig on a session that was
\* synchronized and had decoded: its cursors are still there.
C9_Witness ==
    /\ op = "init"
    /\ ret = -pte_bad_config
    /\ phase = "synced"
    /\ decoder.pos > decoder.sync

(***************************************************************************)
(* C10: a successful sync_backward scans back from sync (from end on a     *)
(* session never synchronized), not from pos: it lands on the nearest      *)
(* marker before that point, pos equals the new sync, and the sync offset  *)
(* reported right after is at most the previous sync offset.               *)
(***************************************************************************)
C10_SyncBackwardFromSync ==
    [][ (op' = "sync_backward" /\ ret' = 0)
            => LET from == IF decoder.sync = NULL THEN decoder.config.end
                           ELSE decoder.sync
                   new == decoder'.sync
               IN  /\ IsPsbAt(new, decoder.config)
                   /\ new < from
                   /\ \A m \in (new + 1)..(from - 1) :
                        ~IsPsbAt(m, decoder.config)
                   /\ decoder'.pos = new
                   /\ pt_pkt_get_sync_offset(decoder', TRUE, TRUE, 0)
                        = [ret |-> 0, offset |-> new - decoder.config.begin]
                   /\ decoder.sync # NULL
                        => SyncOffset(decoder') <= SyncOffset(decoder)
      ]_vars

\* sync_backward landing on the marker at the start of the two-marker
\* memory: the scan from end would stop at a later one, so the session was
\* synchronized before the call.
C10_Witness ==
    /\ op = "sync_backward"
    /\ ret = 0
    /\ mem = 1
    /\ decoder.sync = Base
    /\ decoder.pos = Base

(***************************************************************************)
(* C11: when sync_forward, sync_backward or sync_set returns a negative    *)
(* status, pos and sync are what they were before the call (the start of   *)
(* the scan, marker skip included, is never stored), and the same call     *)
(* made again in the state it left returns the same status.  Stated for    *)
(* the call made in any reachable state with any arguments.                *)
(***************************************************************************)
C11_FailedSyncKeepsCursors ==
    /\ \A hd \in BOOLEAN :
         LET r == pt_pkt_sync_forward(decoder, hd)
         IN  r.ret < 0
                 => /\ r.decoder.pos = decoder.pos
                    /\ r.decoder.sync = decoder.sync
                    /\ pt_pkt_sync_forward(r.decoder, hd).ret = r.ret
    /\ \A hd \in BOOLEAN :
         LET r == pt_pkt_sync_backward(decoder, hd)
         IN  r.ret < 0
                 => /\ r.decoder.pos = decoder.pos
                    /\ r.decoder.sync = decoder.sync
                    /\ pt_pkt_sync_backward(r.decoder, hd).ret = r.ret
    /\ \A hd \in BOOLEAN, offset \in SeekOffsets :
         LET r == pt_pkt_sync_set(decoder, hd, offset)
         IN  r.ret < 0
                 => /\ r.decoder.pos = decoder.pos
                    /\ r.decoder.sync = decoder.sync
                    /\ pt_pkt_sync_set(r.decoder, hd, offset).ret = r.ret

\* sync_forward failing with NoSync on a session whose cursor sat on its
\* sync point, so that the scan started ptps_psb further on: the cursor is
\* still on the sync point.
C11_Witness ==
    /\ op = "sync_forward"
    /\ ret = -pte_nosync
    /\ decoder.pos # NULL
    /\ decoder.pos = decoder.sync
    /\ IsPsbAt(decoder.sync, decoder.config)

(***************************************************************************)
(* C12: in every state reachable from a successful construction by any     *)
(* sequence of sync_forward, sync_backward, sync_set and decode steps, a   *)
(* pos that is set lies in [begin, end] and a sync that is set lies in     *)
(* [begin, end].                                                           *)
(***************************************************************************)
C12_CursorsInsideView ==
    /\ decoder.pos # NULL
         => (decoder.config.begin <= decoder.pos
                /\ decoder.pos <= decoder.config.end)
    /\ decoder.sync # NULL
         => (decoder.config.begin <= decoder.sync
                /\ decoder.sync <= decoder.config.end)

\* A decode step that took pos from inside the view exactly to end, with
\* sync behind it.
C12_Witness ==
    /\ op = "next"
    /\ ret > 0
    /\ decoder.pos = decoder.config.end
    /\ decoder.sync # NULL
    /\ decoder.sync < decoder.pos

(***************************************************************************)
(* C13: after sync_forward has landed on a marker M1 and one decode step   *)
(* has consumed it (pos = M1 + ptps_psb, sync = M1), the next sync_forward *)
(* scans from pos itself, without a skip: it lands on the first marker     *)
(* that starts at or after pos, so a marker M2 right at pos is found and   *)
(* M1 is not found again.  The decode step after that returns the marker   *)
(* with its fixed size, and the next one returns a pad byte that follows   *)
(* as a pad record of size ptps_pad.                                       *)
(***************************************************************************)
C13_ResyncAfterDecodedMarker ==
    [][ /\ (resync = 2 /\ op' = "sync_forward" /\ ret' # -pte_invalid)
             => LET later == { m \in decoder.pos..decoder.config.end :
                                 IsPsbAt(m, decoder.config) }
                IN  /\ decoder.pos = decoder.sync + ptps_psb
                    /\ IF later = {}
                       THEN ret' = -pte_nosync /\ decoder' = decoder
                       ELSE /\ ret' = 0
                            /\ decoder'.sync = Min(later)
                            /\ decoder'.pos = decoder'.sync
                            /\ decoder'.sync # decoder.sync
                    /\ IsPsbAt(decoder.pos, decoder.config)
                         => (ret' = 0 /\ decoder'.sync = decoder.pos)
        /\ (resync = 3 /\ op' = "next"
                /\ ret' \notin { -pte_invalid, -pte_internal })
             => /\ ret' = ptps_psb
                /\ packet' = [type |-> "psb", size |-> ptps_psb]
                /\ decoder'.pos = decoder.pos + ptps_psb
                /\ decoder'.sync = decoder.sync
        /\ (resync = 4 /\ op' = "next"
                /\ ret' \notin { -pte_invalid, -pte_internal }
                /\ decoder.pos < decoder.config.end
                /\ ByteAt(decoder.pos) = "pad")
             => /\ ret' = ptps_pad
                /\ packet' = [type |-> "pad", size |-> ptps_pad]
                /\ decoder'.pos = decoder.pos + ptps_pad
      ]_vars

\* The whole run on the memory of two back-to-back markers and a pad byte:
\* the second sync_forward found the marker at offset ptps_psb, the marker
\* and the pad byte were decoded, and pos is at the memory's end.
C13_Witness ==
    /\ resync = 5
    /\ mem = 1
    /\ decoder.config.begin = Base
    /\ decoder.sync = Base + ptps_psb
    /\ decoder.pos = Base + ptps_psb + ptps_psb + ptps_pad
    /\ packet = [type |-> "pad", size |-> ptps_pad]

(***************************************************************************)
(* C14: for every successful decode step of every kind, Unknown included,  *)
(* the size stored in the packet record equals the size returned to the    *)
(* caller and the amount pos advanced by, whatever non-negative size the   *)
(* reader returned, also one the record's size field cannot hold.          *)
(***************************************************************************)
C14_PacketSizeIsConsumedSize ==
    [][ (op' = "next" /\ ret' >= 0)
            => /\ packet'.size = ret'
               /\ decoder'.pos = decoder.pos + ret'
      ]_vars

(***************************************************************************)
(* C15: every successful decode step returns a size of at least 1 and      *)
(* leaves pos strictly greater than before; a routine's result of 0 is not *)
(* accepted as a success that leaves pos where it was.                     *)
(***************************************************************************)
C15_DecodeStepAdvances ==
    [][ (op' = "next" /\ ret' >= 0)
            => (ret' >= 1 /\ decoder'.pos > decoder.pos)
      ]_vars

(***************************************************************************)
(* C16: the decode step invokes a decode routine only when pos is set and  *)
(* begin <= pos < end.  Called on a session never synchronized, or with    *)
(* pos = end (as after sync_set(end - begin)), it returns an error without *)
(* invoking a routine, returns no packet and leaves pos and sync as they   *)
(* were.                                                                   *)
(***************************************************************************)
C16_NoDispatchOutsideView ==
    [][ op' = "next"
            => /\ dfun' # "none"
                    => /\ decoder.pos # NULL
                       /\ decoder.config.begin <= decoder.pos
                       /\ decoder.pos < decoder.config.end
               /\ (decoder.pos = NULL \/ decoder.pos = decoder.config.end)
                    => /\ ret' < 0
                       /\ dfun' = "none"
                       /\ packet' = NoPacket
                       /\ decoder' = decoder
      ]_vars

\* A decode step with all its arguments on a session that sync_set put at
\* end: refused with end-of-stream, no routine invoked.
C16_Witness ==
    /\ op = "next"
    /\ ret = -pte_eos
    /\ dfun = "none"
    /\ packet = NoPacket
    /\ decoder.pos = decoder.config.end
    /\ decoder.sync = decoder.config.end

(***************************************************************************)
(* C17: sync_forward skips the marker size only when the cursor sits on a  *)
(* marker an earlier scan found.  After an unchecked sync_set(N) the next  *)
(* sync_forward scans from N itself and lands on the first marker that     *)
(* starts at or after N, so a marker starting anywhere in [N, N +          *)
(* ptps_psb) is found, not skipped.                                        *)
(***************************************************************************)
C17_NoSkipAfterSyncSet ==
    [][ (op = "sync_set" /\ ret = 0
            /\ op' = "sync_forward" /\ ret' # -pte_invalid)
            => LET later == { m \in decoder.pos..decoder.config.end :
                                IsPsbAt(m, decoder.config) }
               IN  IF later = {}
                   THEN ret' = -pte_nosync
                   ELSE /\ ret' = 0
                        /\ decoder'.sync = Min(later)
                        /\ decoder'.pos = Min(later)
      ]_vars

(***************************************************************************)
(* A caller that, from any state a session can be in after a               *)
(* synchronization or none, only calls sync_forward and the decode step,   *)
(* and calls sync_forward again and again.                                 *)
(***************************************************************************)
InitForward ==
    /\ mem \in DOMAIN Memories
    /\ ptrBits \in PtrWidths
    /\ \E config \in GoodConfigs :
         \E at \in { NULL } \cup (config.begin..config.end) :
            /\ decoder = [config |-> config, pos |-> at, sync |-> at]
            /\ op = IF at = NULL THEN "init" ELSE "sync_set"
            /\ phase = IF at = NULL THEN "fresh" ELSE "synced"
    /\ ret = 0
    /\ packet = NoPacket
    /\ dfun = "none"
    /\ out = 0
    /\ total = 0
    /\ fwdRun = 0
    /\ resync = 0

NextForward ==
    \/ SyncForward(TRUE)
    \/ \E a \in NextArgs : PktNext(a[1], a[2], a[3], a[4])

SpecForward ==
    InitForward /\ [][NextForward]_vars /\ WF_vars(SyncForward(TRUE))

(***************************************************************************)
(* C18: on a finite buffer and from any reachable state, sync_forward      *)
(* called again and again, with or without decode steps in between,        *)
(* eventually fails; a call fails with NoSync and nothing else, and it     *)
(* does so too when the scan's start after the skip (pos + ptps_psb) lies  *)
(* beyond end.                                                             *)
(***************************************************************************)
C18_SyncForwardRunEnds ==
    /\ <>(op = "sync_forward" /\ ret < 0)
    /\ [][ op' = "sync_forward"
              => /\ ret' \in { 0, -pte_nosync }
                 /\ ret' = 0 => (decoder.sync # NULL
                                    => decoder'.sync > decoder.sync)
                 /\ (decoder.pos # NULL /\ decoder.pos = decoder.sync
                        /\ decoder.pos + ptps_psb > decoder.config.end)
                      => ret' = -pte_nosync
         ]_vars

\* sync_forward failing with NoSync on a session whose cursor sat on its
\* sync point less than ptps_psb before end, after a call that succeeded:
\* the scan's start was beyond end.
C18_Witness ==
    /\ op = "sync_forward"
    /\ ret = -pte_nosync
    /\ phase = "synced"
    /\ decoder.pos = decoder.sync
    /\ decoder.pos + ptps_psb > decoder.config.end

(***************************************************************************)
(* C19: in every reachable state pos and sync are both unset or both set,  *)
(* so that get_offset returns NoSync exactly when get_sync_offset does.    *)
(***************************************************************************)
C19_CursorsSetTogether ==
    /\ (decoder.pos = NULL) <=> (decoder.sync = NULL)
    /\ \A f \in Flags2 :
         (pt_pkt_get_offset(decoder, f[1], f[2], 0).ret = -pte_nosync)
             <=> (pt_pkt_get_sync_offset(decoder, f[1], f[2], 0).ret
                    = -pte_nosync)

\* get_offset answering NoSync on a session that was synchronized and then
\* constructed again: both cursors were cleared together.
C19_Witness ==
    /\ op = "get_offset"
    /\ ret = -pte_nosync
    /\ phase = "reinit"
    /\ decoder.pos = NULL
    /\ decoder.sync = NULL

(***************************************************************************)
(* C20: in every reachable synchronized state sync <= pos, and pos - sync  *)
(* is the total of the sizes the decode steps have returned since the last *)
(* successful synchronization; right after a successful synchronization    *)
(* pos = sync.                                                             *)
(***************************************************************************)
C20_SyncNotAfterPos ==
    /\ decoder.pos # NULL
         => /\ decoder.sync # NULL
            /\ decoder.sync <= decoder.pos
            /\ decoder.pos - decoder.sync = total
    /\ (op \in { "sync_forward", "sync_backward", "sync_set" } /\ ret = 0)
         => (decoder.pos = decoder.sync /\ total = 0)

\* A third or later decode step since the synchronization, with pos ahead
\* of sync by everything decoded.
C20_Witness ==
    /\ op = "next"
    /\ ret > 0
    /\ dfun # "psb"
    /\ total > ret + ptps_psb
    /\ decoder.pos = decoder.sync + total

====
